---- MODULE Spec2Model ----
(***************************************************************************)
(* Model of extract_resource.py: the pipeline driver's stream slicing      *)
(* (main), the BCJ2 decoder (bcj2_decode) and the ustar extractor          *)
(* (extract_tar).                                                          *)
(*                                                                         *)
(* 32-bit registers (code, rc_range, bound, dest) are pairs <<hi, lo>> of  *)
(* 16-bit halves, so that the full 2^32 width of the code is kept.         *)
(***************************************************************************)
EXTENDS Integers, Sequences, FiniteSets, TLC

\* ------------------------------------------------------------------------
\* Bounds of the explored input family
\* ------------------------------------------------------------------------
MaxOut == 7
MaxLen0 == 2
MaxCut == 1
MaxRun == 10
MaxDeep == 130

\* ------------------------------------------------------------------------
\* Program constants
\* ------------------------------------------------------------------------
kNumModels == 258
kProbInit == 1024
kNumRcInitBytes_six == 5 + 1
kNumRcInitBytes_four == 5 - 1
kNumRcInitBytes == 5
CALL == 232
JMP == 233
ESC0F == 15

W16 == 256 * 256

Min(a, b) == IF a < b THEN a ELSE b

\* Python slice s[a:b] with 0 <= a <= b: both ends are clipped to len(s)
Slice(s, a, b) == SubSeq(s, Min(a, Len(s)) + 1, Min(b, Len(s)))

\* ------------------------------------------------------------------------
\* 32-bit unsigned arithmetic on <<hi, lo>> pairs
\* ------------------------------------------------------------------------
U32Max == <<65535, 65535>>
U32Zero == <<0, 0>>
kTopValue == <<256, 0>>

FromNat(n) == <<n \div W16, n % W16>>

Lt32(x, y) == x[1] < y[1] \/ (x[1] = y[1] /\ x[2] < y[2])

\* (x - y) & 0xFFFFFFFF
Sub32(x, y) ==
    LET lo == x[2] - y[2]
        borrow == IF lo < 0 THEN 1 ELSE 0
        hi == x[1] - y[1] - borrow
    IN  <<(hi + 2 * W16) % W16, (lo + W16) % W16>>

\* (x + y) & 0xFFFFFFFF
Add32(x, y) ==
    LET lo == x[2] + y[2]
        hi == x[1] + y[1] + (lo \div W16)
    IN  <<hi % W16, lo % W16>>

\* ((x << 8) | byte) & 0xFFFFFFFF
Shl8Or(x, byte) ==
    <<(x[1] % 256) * 256 + (x[2] \div 256), (x[2] % 256) * 256 + byte>>

\* (x << 8) & 0xFFFFFFFF
Shl8(x) == Shl8Or(x, 0)

\* (rc_range >> 11) * ttt ; the product is not masked by the code
BoundOf(rng, ttt) ==
    LET r == rng[1] * 32 + (rng[2] \div 2048)
        rl == r % W16
        rh == r \div W16
        pl == rl * ttt
    IN  <<rh * ttt + (pl \div W16), pl % W16>>

\* (v[0] << 24) | (v[1] << 16) | (v[2] << 8) | v[3]
BigEndian(v) == <<v[1] * 256 + v[2], v[3] * 256 + v[4]>>

\* byte k (0 = least significant) of a 32-bit value
ByteOf(x, k) ==
    CASE k = 0 -> x[2] % 256
      [] k = 1 -> x[2] \div 256
      [] k = 2 -> x[1] % 256
      [] OTHER -> x[1] \div 256

\* ------------------------------------------------------------------------
\* State
\* ------------------------------------------------------------------------
VARIABLES
    \* main: parsed 20-byte header and the bytes that follow it
    original_size, stream0_size, stream1_size, stream2_size, stream3_size,
    lzma_data, warning,
    \* bcj2_decode: arguments
    buf0, buf1, buf2, buf3,
    \* bcj2_decode: locals
    p, in_pos, out_pos, out_buf, prev_byte, buf3_pos, code, rc_range, i,
    buf1_pos, buf1_remaining, buf2_pos, buf2_remaining,
    limit, b, prob_idx, v, dest, k,
    \* bcj2_decode: what it printed, what it returned, what it raised
    diag, ret, ret_at, exc,
    \* main after the decode: the tar image, the magic check, the directory
    tar_data, valid, idx, fs,
    \* extract_tar: argument and locals, the entries it created, why it stopped
    offset, pos, file_count, created, stop, total,
    \* position in the program
    pc

hvars == <<original_size, stream0_size, stream1_size, stream2_size,
           stream3_size, lzma_data>>
avars == <<buf0, buf1, buf2, buf3>>
rcvars == <<p, buf3_pos, code, rc_range>>
bvars == <<hvars, warning, avars, rcvars, in_pos, out_pos, out_buf,
           prev_byte, i, buf1_pos, buf1_remaining, buf2_pos, buf2_remaining,
           limit, b, prob_idx, v, dest, k, diag, ret, ret_at, exc, pc>>

\* everything but pc and exc, which both halves of the pipeline use
dvars == <<hvars, warning, avars, rcvars, in_pos, out_pos, out_buf,
           prev_byte, i, buf1_pos, buf1_remaining, buf2_pos, buf2_remaining,
           limit, b, prob_idx, v, dest, k, diag, ret, ret_at>>
xvars == <<offset, pos, file_count, created, stop, total>>
tvars == <<tar_data, valid, idx, fs, xvars>>

None == -1

\* a local that has not been assigned yet, where -1 is a value it can take
Unbound == 0 - 2

\* the result before the function has returned: no byte string holds -1
NoResult == <<None>>

\* ------------------------------------------------------------------------
\* Input family
\* ------------------------------------------------------------------------
SeqsUpTo(S, n) == UNION {[1..m -> S] : m \in 0..n}

Alpha0 == {ESC0F, 128, CALL, JMP}
Buf0Short == SeqsUpTo(Alpha0, MaxLen0)
Buf1Short == {<<>>, <<1, 2, 3>>, <<0, 0, 0, 0>>, <<15, 0, 0, 5>>,
              <<18, 52, 86, 120>>}
Buf2Short == {<<>>, <<255, 255, 255, 255>>, <<15, 0, 0, 6>>}
Buf3Short == {<<>>, <<0, 0, 0, 0>>, <<0, 0, 0, 0, 0>>, <<9, 128, 0, 0, 0>>,
              <<0, 192, 0, 0, 0>>, <<0, 64, 0, 0, 0>>,
              <<255, 255, 255, 255, 255>>}

\* (CALL stream, JMP stream) pairs
AddrShort == {<<s1, <<>>>> : s1 \in Buf1Short}
             \cup {<<<<>>, s2>> : s2 \in Buf2Short}
             \cup {<<<<0, 0, 0, 0>>, <<255, 255, 255, 255>>>>}
AddrMismatch == {<<<<>>, <<>>>>, <<<<0, 0, 0, 0>>, <<255, 255, 255, 255>>>>}

Buf0Long == {[n \in 1..m |-> CALL] : m \in (MaxRun - 1)..MaxRun}
Buf1Long == {<<>>, <<0, 0, 0, 0>>}
Buf3Long == {<<0, 0, 0, 0, 0>>, <<0, 0, 0, 0, 0, 255>>,
             <<0, 1, 0, 0, 0>>, <<0, 1, 0, 0, 0, 7>>}

\* the bytes after the header: the four streams back to back, with the last
\* `cut` bytes missing (cut > 0) or one stray byte appended (cut < 0)
Payload(s0, s1, s2, s3, cut) ==
    LET all == s0 \o s1 \o s2 \o s3
    IN  IF cut < 0 THEN all \o <<0>>
        ELSE SubSeq(all, 1, Len(all) - Min(cut, Len(all)))

InitLocals ==
    /\ warning = FALSE
    /\ buf0 = <<>> /\ buf1 = <<>> /\ buf2 = <<>> /\ buf3 = <<>>
    /\ p = [n \in 0..(kNumModels - 1) |-> kProbInit]
    /\ in_pos = 0 /\ out_pos = 0 /\ out_buf = <<>>
    /\ prev_byte = 0 /\ buf3_pos = 0
    /\ code = U32Zero /\ rc_range = U32Max /\ i = 0
    /\ buf1_pos = 0 /\ buf1_remaining = 0
    /\ buf2_pos = 0 /\ buf2_remaining = 0
    /\ limit = 0 /\ b = None /\ prob_idx = None
    /\ v = <<>> /\ dest = U32Zero /\ k = 0
    /\ diag = "" /\ ret = NoResult /\ ret_at = "" /\ exc = ""

\* the extraction half before main reaches it
TarIdle ==
    /\ tar_data = [blocks |-> <<>>, tail |-> 0, tail_magic |-> <<>>]
    /\ valid = FALSE /\ idx = Unbound
    /\ fs = <<>>
    /\ offset = 0 /\ pos = 0 /\ file_count = 0
    /\ created = <<>> /\ stop = "" /\ total = Unbound

InitInput(os, s0, s1, s2, s3, cut) ==
    /\ original_size = os
    /\ stream0_size = Len(s0) /\ stream1_size = Len(s1)
    /\ stream2_size = Len(s2) /\ stream3_size = Len(s3)
    /\ lzma_data = Payload(s0, s1, s2, s3, cut)

\* declared sizes agree with the bytes available
InitShort ==
    \E os \in 0..MaxOut, s0 \in Buf0Short, a \in AddrShort,
       s3 \in Buf3Short :
        InitInput(os, s0, a[1], a[2], s3, 0)

\* declared sizes sum to more (cut > 0) or less (cut < 0) than available
InitMismatch ==
    \E os \in {0, MaxOut}, s0 \in Buf0Short, a \in AddrMismatch,
       s3 \in Buf3Short, cut \in {-1} \cup 1..MaxCut :
        InitInput(os, s0, a[1], a[2], s3, cut)

\* long runs of candidates, enough for the range to need normalizing
InitLong ==
    \E s0 \in Buf0Long, s1 \in Buf1Long, s3 \in Buf3Long,
       os \in {MaxRun, MaxRun + 1, MaxRun + 5}, cut \in 0..MaxCut :
        InitInput(os, s0, s1, <<>>, s3, cut)

Rep(n, x) == [j \in 1..n |-> x]

\* runs of CALL candidates long enough for a probability slot to travel from
\* 1024 to either end of its range: only 0 bits (code stays 0), only 1 bits
\* (code stays rc_range - 1), and a mix
Buf3Deep == {Rep(5 + 16, 0),
             <<0, 255, 255, 255, 254>> \o Rep(16, 255),
             <<0, 85, 85, 85, 85>> \o Rep(16, 170)}

InitDeep ==
    \E s3 \in Buf3Deep :
        InitInput(5 * MaxDeep, Rep(MaxDeep, CALL), Rep(4 * MaxDeep, 0),
                  <<>>, s3, 0)

\* a literal byte before every CALL selects that CALL's context
AfterLiterals(lits) ==
    [n \in 1..(2 * Len(lits)) |->
        IF n % 2 = 1 THEN lits[(n + 1) \div 2] ELSE CALL]

\* two encoded streams: 128 decisions on context 65 take its slot to one end
\* of its range, 13 decisions on contexts 66..69 bring rc_range down to just
\* above 0x01000000, and a last decision on context 65 takes the unlikely
\* bit, which leaves the smallest range a decision can leave
AuxHigh == <<67, 69, 68, 69, 67, 68, 67, 69, 69, 68, 67, 67, 68>>
AuxLow == <<68, 66, 68, 66, 67, 67, 67, 67, 67, 68, 68, 67, 68>>
Buf3High == <<0, 0, 0, 0, 9, 63, 134, 235, 229, 0>>
Buf3Low == <<0, 255, 255, 255, 241, 66, 216, 237, 92, 0>>

InitCrafted ==
    \/ InitInput(316, AfterLiterals(Rep(128, 65) \o AuxHigh \o <<65>>),
                 Rep(4 * 8, 0), <<>>, Buf3High, 0)
    \/ InitInput(808 + 1, AfterLiterals(Rep(128, 65) \o AuxLow \o <<65>>),
                 Rep(4 * 131, 0), <<>>, Buf3Low, 0)

Init ==
    /\ InitShort \/ InitMismatch \/ InitLong \/ InitDeep \/ InitCrafted
    /\ InitLocals /\ TarIdle
    /\ pc = "main_slice"

\* ------------------------------------------------------------------------
\* main: slicing the four streams (lines 302-325)
\* ------------------------------------------------------------------------
MainSlice ==
    /\ pc = "main_slice"
    /\ UNCHANGED tvars
    /\ LET expected_data == stream0_size + stream1_size + stream2_size
                            + stream3_size
           actual_data == Len(lzma_data)
           p0 == 0
           p1 == p0 + stream0_size
           p2 == p1 + stream1_size
           p3 == p2 + stream2_size
       IN  /\ warning' = (expected_data # actual_data)
           /\ buf0' = Slice(lzma_data, p0, p0 + stream0_size)
           /\ buf1' = Slice(lzma_data, p1, p1 + stream1_size)
           /\ buf2' = Slice(lzma_data, p2, p2 + stream2_size)
           /\ buf3' = Slice(lzma_data, p3, p3 + stream3_size)
    /\ out_buf' = [n \in 1..original_size |-> 0]
    /\ pc' = "rc_init"
    /\ UNCHANGED <<hvars, rcvars, in_pos, out_pos, prev_byte, i, buf1_pos,
                   buf1_remaining, buf2_pos, buf2_remaining, limit, b,
                   prob_idx, v, dest, k, diag, ret, ret_at, exc>>

\* ------------------------------------------------------------------------
\* bcj2_decode
\* ------------------------------------------------------------------------
\* the cursor check left out
Exhausted_unchecked(cur, size) == FALSE

\* a cursor check of the form `pos >= size` (lines 51, 111, 126)
Exhausted(cur, size) == cur >= size

\* `print(...)` of diagnostic d, then `return bytes(out_buf[:out_pos])` at the
\* return statement named `at`
Returned(d, at) ==
    /\ diag' = d
    /\ ret' = Slice(out_buf, 0, out_pos)
    /\ ret_at' = at
    /\ exc' = exc
    /\ pc' = "returned"

\* an IndexError raised by the subscript of `site`
Raised(site) ==
    /\ exc' = site
    /\ pc' = "raised"
    /\ UNCHANGED <<diag, ret, ret_at>>

\* RC_INIT2, one iteration of `for _ in range(5)` (lines 50-55)
RCInit ==
    /\ pc = "rc_init"
    /\ UNCHANGED tvars
    /\ i < kNumRcInitBytes
    /\ IF Exhausted(buf3_pos, stream3_size)
       THEN /\ Returned("RCInit", "rc_init")
            /\ UNCHANGED <<rcvars, i>>
       ELSE IF buf3_pos >= Len(buf3)
       THEN /\ Raised("buf3")
            /\ UNCHANGED <<rcvars, i>>
       ELSE /\ code' = Shl8Or(code, buf3[buf3_pos + 1])
            /\ buf3_pos' = buf3_pos + 1
            /\ i' = i + 1
            /\ UNCHANGED <<p, rc_range, diag, ret, ret_at, exc, pc>>
    /\ UNCHANGED <<hvars, warning, avars, in_pos, out_pos, out_buf,
                   prev_byte, buf1_pos, buf1_remaining, buf2_pos,
                   buf2_remaining, limit, b, prob_idx, v, dest, k>>

\* `if out_size == 0` (line 57)
EmptyOutput(out_size) == out_size = 0

\* lines 57-64
AfterInit ==
    /\ pc = "rc_init"
    /\ UNCHANGED tvars
    /\ i = kNumRcInitBytes
    /\ IF EmptyOutput(original_size)
       THEN /\ ret' = <<>>
            /\ ret_at' = "empty"
            /\ pc' = "returned"
            /\ UNCHANGED <<buf1_pos, buf1_remaining, buf2_pos, buf2_remaining>>
       ELSE /\ buf1_pos' = 0
            /\ buf1_remaining' = stream1_size
            /\ buf2_pos' = 0
            /\ buf2_remaining' = stream2_size
            /\ pc' = "loop_head"
            /\ UNCHANGED <<ret, ret_at>>
    /\ UNCHANGED <<hvars, warning, avars, rcvars, in_pos, out_pos, out_buf,
                   prev_byte, i, limit, b, prob_idx, v, dest, k, diag, exc>>

\* lines 66-70
LoopHead ==
    /\ pc = "loop_head"
    /\ UNCHANGED tvars
    /\ limit' = Min(stream0_size - in_pos, original_size - out_pos)
    /\ k' = 0
    /\ pc' = "copy"
    /\ UNCHANGED <<hvars, warning, avars, rcvars, in_pos, out_pos, out_buf,
                   prev_byte, i, buf1_pos, buf1_remaining, buf2_pos,
                   buf2_remaining, b, prob_idx, v, dest, diag, ret, ret_at,
                   exc>>

\* only the CALL opcode taken for a candidate
IsJ_callonly(prev, byte) == byte = CALL

\* IsJ(prevByte, b) (line 78)
IsJ(prev, byte) ==
    \/ byte \in {CALL, JMP}
    \/ (prev = ESC0F /\ byte \div 16 = 8)

\* one pass of `while limit != 0` (lines 72-84)
CopyStep ==
    /\ pc = "copy"
    /\ UNCHANGED tvars
    /\ IF limit = 0
       THEN /\ pc' = "check"
            /\ UNCHANGED <<b, out_buf, out_pos, in_pos, prev_byte, limit,
                           diag, ret, ret_at, exc>>
       ELSE IF in_pos >= Len(buf0)
       THEN /\ Raised("buf0")
            /\ UNCHANGED <<b, out_buf, out_pos, in_pos, prev_byte, limit>>
       ELSE IF out_pos >= Len(out_buf)
       THEN /\ Raised("out_buf")
            /\ b' = buf0[in_pos + 1]
            /\ UNCHANGED <<out_buf, out_pos, in_pos, prev_byte, limit>>
       ELSE /\ b' = buf0[in_pos + 1]
            /\ out_buf' = [out_buf EXCEPT ![out_pos + 1] = b']
            /\ out_pos' = out_pos + 1
            /\ IF IsJ(prev_byte, b')
               THEN /\ pc' = "check"
                    /\ UNCHANGED <<in_pos, prev_byte, limit>>
               ELSE /\ in_pos' = in_pos + 1
                    /\ prev_byte' = b'
                    /\ limit' = limit - 1
                    /\ pc' = pc
            /\ UNCHANGED <<diag, ret, ret_at, exc>>
    /\ UNCHANGED <<hvars, warning, avars, rcvars, i, buf1_pos,
                   buf1_remaining, buf2_pos, buf2_remaining, prob_idx, v,
                   dest, k>>

\* the context taken from the candidate byte itself
ProbIdx_self(byte, prev) ==
    IF byte = CALL THEN byte
    ELSE IF byte = JMP THEN 256
    ELSE 257

\* the probability context (lines 94-99)
ProbIdx(byte, prev) ==
    IF byte = CALL THEN prev
    ELSE IF byte = JMP THEN 256
    ELSE 257

\* the cursor left on the candidate
NextIn_stuck(cur) == cur

\* the cursor moved past the byte after the candidate too
NextIn_twice(cur) == cur + 2

\* `in_pos += 1` past the re-read candidate (line 91)
NextIn(cur) == cur + 1

\* lines 86-99
CheckBreak ==
    /\ pc = "check"
    /\ UNCHANGED tvars
    /\ IF limit = 0 \/ out_pos = original_size
       THEN /\ pc' = "tail"
            /\ UNCHANGED <<b, in_pos, prob_idx, exc>>
       ELSE IF in_pos >= Len(buf0)
       THEN /\ exc' = "buf0"
            /\ pc' = "raised"
            /\ UNCHANGED <<b, in_pos, prob_idx>>
       ELSE /\ b' = buf0[in_pos + 1]
            /\ in_pos' = NextIn(in_pos)
            /\ prob_idx' = ProbIdx(b', prev_byte)
            /\ pc' = "decide"
            /\ exc' = exc
    /\ UNCHANGED <<hvars, warning, avars, rcvars, out_pos, out_buf,
                   prev_byte, i, buf1_pos, buf1_remaining, buf2_pos,
                   buf2_remaining, limit, v, dest, k, diag, ret, ret_at>>

\* UPDATE_0 / UPDATE_1 of the probability slot (lines 108, 123)
Update0(ttt) == ttt + ((2048 - ttt) \div 32)
\* the whole slot taken off
Update1_all(ttt) == ttt - ttt

Update1(ttt) == ttt - (ttt \div 32)

\* the range never refilled
NeedNormalize_never(rng) == FALSE

\* `if rc_range < 0x01000000` (lines 110, 125)
NeedNormalize(rng) == Lt32(rng, kTopValue)

\* IF_BIT_0 .. NORMALIZE: one bit decision (lines 101-131)
DecodeBit ==
    /\ pc = "decide"
    /\ UNCHANGED tvars
    /\ LET ttt == p[prob_idx]
           bound == BoundOf(rc_range, ttt)
           bit == IF Lt32(code, bound) THEN 0 ELSE 1
           rng1 == IF bit = 0 THEN bound ELSE Sub32(rc_range, bound)
           code1 == IF bit = 0 THEN code ELSE Sub32(code, bound)
           p1 == [p EXCEPT ![prob_idx] =
                     IF bit = 0 THEN Update0(ttt) ELSE Update1(ttt)]
       IN  IF NeedNormalize(rng1) /\ Exhausted(buf3_pos, stream3_size)
           THEN /\ Returned("RCNormalize", "normalize")
                /\ rc_range' = rng1 /\ code' = code1 /\ p' = p1
                /\ UNCHANGED <<buf3_pos, prev_byte>>
           ELSE IF NeedNormalize(rng1) /\ buf3_pos >= Len(buf3)
           THEN /\ Raised("buf3")
                /\ rc_range' = Shl8(rng1) /\ code' = code1 /\ p' = p1
                /\ UNCHANGED <<buf3_pos, prev_byte>>
           ELSE /\ p' = p1
                /\ IF NeedNormalize(rng1)
                   THEN /\ rc_range' = Shl8(rng1)
                        /\ code' = Shl8Or(code1, buf3[buf3_pos + 1])
                        /\ buf3_pos' = buf3_pos + 1
                   ELSE /\ rc_range' = rng1
                        /\ code' = code1
                        /\ buf3_pos' = buf3_pos
                /\ IF bit = 0
                   THEN /\ prev_byte' = b
                        /\ pc' = "loop_head"
                   ELSE /\ prev_byte' = prev_byte
                        /\ pc' = "addr"
                /\ UNCHANGED <<diag, ret, ret_at, exc>>
    /\ UNCHANGED <<hvars, warning, avars, in_pos, out_pos, out_buf, i,
                   buf1_pos, buf1_remaining, buf2_pos, buf2_remaining,
                   limit, b, prob_idx, v, dest, k>>

\* the displacement taken from the opcode's own position
DestOf_nobias(addr, at) == Sub32(BigEndian(addr), FromNat(at))

\* dest = big_endian(v) - (outPos + 4) (lines 150-151)
DestOf(addr, at) == Sub32(BigEndian(addr), FromNat(at + 4))

\* an address of three bytes
kAddrSize_three == 4 - 1

\* the bytes of one address in the CALL and JMP streams (lines 135-147)
kAddrSize == 4

\* read 4 bytes from the CALL or the JMP stream (lines 133-151)
ReadAddr ==
    /\ pc = "addr"
    /\ UNCHANGED tvars
    /\ IF b = CALL
       THEN IF buf1_remaining < kAddrSize
            THEN /\ Returned("CALL", "call")
                 /\ UNCHANGED <<v, dest, k, buf1_pos, buf1_remaining,
                                buf2_pos, buf2_remaining>>
            ELSE /\ v' = Slice(buf1, buf1_pos, buf1_pos + kAddrSize)
                 /\ buf1_pos' = buf1_pos + kAddrSize
                 /\ buf1_remaining' = buf1_remaining - kAddrSize
                 /\ UNCHANGED <<buf2_pos, buf2_remaining>>
                 /\ IF Len(v') < 4
                    THEN /\ Raised("v")
                         /\ UNCHANGED <<dest, k>>
                    ELSE /\ dest' = DestOf(v', out_pos)
                         /\ k' = 0
                         /\ pc' = "patch"
                         /\ UNCHANGED <<diag, ret, ret_at, exc>>
       ELSE IF buf2_remaining < kAddrSize
            THEN /\ Returned("JMP", "jmp")
                 /\ UNCHANGED <<v, dest, k, buf1_pos, buf1_remaining,
                                buf2_pos, buf2_remaining>>
            ELSE /\ v' = Slice(buf2, buf2_pos, buf2_pos + kAddrSize)
                 /\ buf2_pos' = buf2_pos + kAddrSize
                 /\ buf2_remaining' = buf2_remaining - kAddrSize
                 /\ UNCHANGED <<buf1_pos, buf1_remaining>>
                 /\ IF Len(v') < 4
                    THEN /\ Raised("v")
                         /\ UNCHANGED <<dest, k>>
                    ELSE /\ dest' = DestOf(v', out_pos)
                         /\ k' = 0
                         /\ pc' = "patch"
                         /\ UNCHANGED <<diag, ret, ret_at, exc>>
    /\ UNCHANGED <<hvars, warning, avars, rcvars, in_pos, out_pos, out_buf,
                   prev_byte, i, limit, b, prob_idx>>

\* the mid-address check left out
OutputFull_unchecked(at, out_size) == FALSE

\* `if out_pos == out_size: break` (lines 155, 160, 165)
OutputFull(at, out_size) == at = out_size

\* write byte k of dest, k = 0..3 counting the bytes of this patch already
\* written (lines 153-170)
PatchByte ==
    /\ pc = "patch"
    /\ UNCHANGED tvars
    /\ IF out_pos >= Len(out_buf)
       THEN /\ Raised("out_buf")
            /\ UNCHANGED <<out_buf, out_pos, prev_byte, k>>
       ELSE /\ out_buf' = [out_buf EXCEPT ![out_pos + 1] = ByteOf(dest, k)]
            /\ out_pos' = out_pos + 1
            /\ k' = k + 1
            /\ IF k < 3
               THEN /\ prev_byte' = prev_byte
                    /\ pc' = IF OutputFull(out_pos', original_size)
                             THEN "tail" ELSE pc
               ELSE /\ prev_byte' = ByteOf(dest, 3)
                    /\ pc' = "loop_head"
            /\ UNCHANGED <<diag, ret, ret_at, exc>>
    /\ UNCHANGED <<hvars, warning, avars, rcvars, in_pos, i, buf1_pos,
                   buf1_remaining, buf2_pos, buf2_remaining, limit, b,
                   prob_idx, v, dest>>

\* the closing report (lines 172-177)
TailDiag(at, out_size) == IF at # out_size THEN "Incomplete" ELSE "OK"

\* lines 172-179
Report ==
    /\ pc = "tail"
    /\ UNCHANGED tvars
    /\ Returned(TailDiag(out_pos, original_size), "end")
    /\ UNCHANGED <<hvars, warning, avars, rcvars, in_pos, out_pos, out_buf,
                   prev_byte, i, buf1_pos, buf1_remaining, buf2_pos,
                   buf2_remaining, limit, b, prob_idx, v, dest, k>>

vars == <<bvars, tvars>>

Next ==
    \/ MainSlice
    \/ RCInit
    \/ AfterInit
    \/ LoopHead
    \/ CopyStep
    \/ CheckBreak
    \/ DecodeBit
    \/ ReadAddr
    \/ PatchByte
    \/ Report

Spec == Init /\ [][Next]_vars

\* the interpreter keeps running the function until it returns or raises
FairSpec == Init /\ [][Next]_vars /\ WF_vars(Next)


\* ------------------------------------------------------------------------
\* The tar image: 512-byte blocks, each held as the header fields that
\* extract_tar slices out of it, and an optional short last block
\* ------------------------------------------------------------------------
MaxBlocks == 3
MaxName == 4

kBlock == 512
NUL == "NUL"
SP == " "
Ustar == <<"u", "s", "t", "a", "r">>
MagicPosix == Ustar \o <<NUL, "0", "0">>
MagicGnu == Ustar \o <<SP, SP, NUL>>
MagicZero == <<NUL, NUL, NUL, NUL, NUL, NUL, NUL, NUL>>
MagicBad == <<"u", "s", "t", "a", "x", NUL, NUL, NUL>>
PayloadName == <<"_", "p", "a", "y", "l", "o", "a", "d", ".", "t", "a", "r">>

Hdr(n, sz, ty, mg, pf) ==
    [name |-> n, size |-> sz, typeflag |-> ty, magic |-> mg, prefix |-> pf]

Size512 == <<"0", "0", "0", "0", "0", "0", "0", "1", "0", "0", "0", NUL>>

BlockKinds ==
    { Hdr(<<"a">>, Size512, "0", MagicPosix, <<>>),
      Hdr(<<"a", "/", "a">>, <<"5", SP>>, "0", MagicGnu, <<>>),
      Hdr(<<"a">>, <<>>, "0", MagicPosix, <<>>),
      Hdr(<<"a", "/">>, <<>>, "5", MagicPosix, <<>>),
      Hdr(<<"a">>, Size512, "5", MagicPosix, <<>>),
      Hdr(<<>>, <<>>, NUL, MagicZero, <<>>),
      Hdr(<<"a">>, <<>>, "0", MagicBad, <<>>),
      Hdr(<<>>, <<>>, "0", MagicPosix, <<>>),
      Hdr(<<"a">>, <<"8">>, "0", MagicPosix, <<>>),
      Hdr(<<"a">>, <<"-", "1">>, "0", MagicPosix, <<>>),
      Hdr(<<"/">>, <<>>, "0", MagicPosix, <<>>),
      Hdr(PayloadName, <<>>, "0", MagicPosix, <<>>) }

NameChars == {"/", ".", "a"}
NameFields == SeqsUpTo(NameChars, MaxName)
              \cup {<<"a", NUL, ".", ".">>, <<SP, "/", "a", SP>>}
PrefixFields == {<<>>, <<".", ".">>, <<"/">>}

Image(blks, tl, tm) == [blocks |-> blks, tail |-> tl, tail_magic |-> tm]

\* len(data)
DataLen(data) == kBlock * Len(data.blocks) + data.tail

\* data[at:at + 512] for at a multiple of 512 with at + 512 <= len(data)
HeaderAt(data, at) == data.blocks[(at \div kBlock) + 1]

\* tar_data[257:262] == b'ustar' (line 328)
MagicAtStart(data) ==
    IF Len(data.blocks) >= 1 THEN SubSeq(data.blocks[1].magic, 1, 5) = Ustar
    ELSE data.tail >= 262 /\ SubSeq(data.tail_magic, 1, 5) = Ustar

\* tar_data.find(b'ustar') (line 332); the images spell "ustar" only in
\* magic fields
Find(data) ==
    LET hits == {kBlock * (n - 1) + 257 : n \in
                    {m \in 1..Len(data.blocks) :
                        SubSeq(data.blocks[m].magic, 1, 5) = Ustar}}
                \cup (IF data.tail >= 262
                         /\ SubSeq(data.tail_magic, 1, 5) = Ustar
                      THEN {kBlock * Len(data.blocks) + 257} ELSE {})
    IN  IF hits = {} THEN 0 - 1
        ELSE CHOOSE h \in hits : \A g \in hits : h <= g

\* ------------------------------------------------------------------------
\* extract_tar: parsing one header
\* ------------------------------------------------------------------------
\* header[257:262] == b'\x00\x00\x00\x00\x00' (line 194)
IsEndMarker(h) == SubSeq(h.magic, 1, 5) = <<NUL, NUL, NUL, NUL, NUL>>

\* every magic accepted
MagicOk_any(h) == TRUE

\* lines 199-204
MagicOk(h) ==
    IF SubSeq(h.magic, 1, 5) # Ustar
    THEN h.magic = MagicGnu
    ELSE TRUE

RECURSIVE LStrip(_, _)
LStrip(s, c) == IF s # <<>> /\ s[1] = c THEN LStrip(Tail(s), c) ELSE s

RECURSIVE RStrip(_, _)
RStrip(s, c) ==
    IF s # <<>> /\ s[Len(s)] = c
    THEN RStrip(SubSeq(s, 1, Len(s) - 1), c)
    ELSE s

\* str.strip()
Strip(s) == RStrip(LStrip(s, SP), SP)

\* field.split(b'\x00', 1)[0]
UntilNul(f) ==
    LET nuls == {n \in 1..Len(f) : f[n] = NUL}
    IN  IF nuls = {} THEN f
        ELSE SubSeq(f, 1, (CHOOSE n \in nuls : \A m \in nuls : n <= m) - 1)

\* lines 207-212
NameOf(h) ==
    LET name == Strip(UntilNul(h.name))
        prefix == Strip(UntilNul(h.prefix))
    IN  IF prefix # <<>> THEN prefix \o <<"/">> \o name ELSE name

\* line 219
SizeRaw(h) == Strip(RStrip(RStrip(h.size, NUL), SP))

OctDigits == <<"0", "1", "2", "3", "4", "5", "6", "7">>

\* int() takes a sign before the digits
Signed(s) == s # <<>> /\ s[1] \in {"-", "+"}
Unsigned(s) == IF Signed(s) THEN Tail(s) ELSE s

IsOctal(s) ==
    \/ s = <<>>
    \/ /\ Unsigned(s) # <<>>
       /\ \A n \in 1..Len(Unsigned(s)) :
              \E d \in 1..8 : OctDigits[d] = Unsigned(s)[n]

RECURSIVE OctVal(_)
OctVal(s) ==
    IF s = <<>> THEN 0
    ELSE OctVal(SubSeq(s, 1, Len(s) - 1)) * 8
         + ((CHOOSE d \in 1..8 : OctDigits[d] = s[Len(s)]) - 1)

\* int(size_raw, 8) if size_raw else 0 (line 220), for a text of digits
FileSize(h) ==
    IF SizeRaw(h) = <<>> THEN 0
    ELSE IF SizeRaw(h)[1] = "-" THEN 0 - OctVal(Unsigned(SizeRaw(h)))
    ELSE OctVal(Unsigned(SizeRaw(h)))

\* int() raises ValueError
BadSize(h) == ~IsOctal(SizeRaw(h))

\* the size taken without padding
PaddedSize_raw(n) == n

\* line 227
PaddedSize(n) ==
    IF n > 0 THEN n + ((kBlock - (n % kBlock)) % kBlock) ELSE 0

\* the bounds of data[a:a + n] for a >= 0: a negative end counts from the
\* end of the data, and both ends are clipped
SliceBounds(len, a, n) ==
    LET e == IF a + n < 0 THEN (IF len + a + n < 0 THEN 0 ELSE len + a + n)
             ELSE Min(a + n, len)
        lo == Min(a, len)
    IN  <<lo, IF e < lo THEN lo ELSE e>>

\* the leading slashes kept
LStripSlash_kept(nm) == nm

\* name.lstrip('/') (line 230)
LStripSlash(nm) == LStrip(nm, "/")

\* name.replace('..', '_') (line 231)
RECURSIVE ReplaceDotDot(_)
ReplaceDotDot(s) ==
    IF s = <<>> THEN <<>>
    ELSE IF Len(s) >= 2 /\ s[1] = "." /\ s[2] = "."
    THEN <<"_">> \o ReplaceDotDot(SubSeq(s, 3, Len(s)))
    ELSE <<s[1]>> \o ReplaceDotDot(Tail(s))

\* lines 229-231
Sanitize(nm) == ReplaceDotDot(LStripSlash(nm))

\* line 233
IsDirEntry(h, nm) ==
    h.typeflag = "5" \/ (nm # <<>> /\ nm[Len(nm)] = "/")

\* ------------------------------------------------------------------------
\* The output directory: a map from paths (sequences of components, relative
\* to output_dir) to directories and files; a file's content is the byte
\* range of tar_data written into it
\* ------------------------------------------------------------------------
DirNode == [kind |-> "dir", from |-> 0, to |-> 0]
FileNode(first, last) == [kind |-> "file", from |-> first, to |-> last]

RECURSIVE SplitSlash(_, _)
SplitSlash(s, cur) ==
    IF s = <<>> THEN <<cur>>
    ELSE IF s[1] = "/" THEN <<cur>> \o SplitSlash(Tail(s), <<>>)
    ELSE SplitSlash(Tail(s), Append(cur, s[1]))

IsRealComponent(c) == c # <<>> /\ c # <<".">>

\* the components that name something: '' and '.' resolve to the directory
\* they stand in
RECURSIVE RealComponents(_)
RealComponents(parts) ==
    IF parts = <<>> THEN <<>>
    ELSE (IF IsRealComponent(parts[1]) THEN <<parts[1]>> ELSE <<>>)
         \o RealComponents(Tail(parts))

\* os.path.join(output_dir, name) as the file system resolves it
PathOf(nm) == RealComponents(SplitSlash(nm, <<>>))

\* os.path.dirname(os.path.join(output_dir, name)) (line 239)
DirnameOf(nm) ==
    LET parts == SplitSlash(nm, <<>>)
    IN  RealComponents(SubSeq(parts, 1, Len(parts) - 1))

\* the last path element names a directory ('' or '.')
NamesDirectory(nm) ==
    LET parts == SplitSlash(nm, <<>>)
    IN  ~IsRealComponent(parts[Len(parts)])

Prefixes(path) == {SubSeq(path, 1, n) : n \in 0..Len(path)}

\* os.makedirs(path, exist_ok=True) succeeds
CanMakeDirs(tree, dirs) ==
    \A d \in Prefixes(dirs) : d \in DOMAIN tree => tree[d].kind = "dir"

MakeDirs(tree, dirs) ==
    [d \in (DOMAIN tree) \cup Prefixes(dirs) |->
        IF d \in DOMAIN tree THEN tree[d] ELSE DirNode]

\* open(file_path, 'wb') succeeds
CanOpen(tree, nm) ==
    /\ ~NamesDirectory(nm)
    /\ PathOf(nm) \in DOMAIN tree => tree[PathOf(nm)].kind = "file"

WriteFile(tree, target, first, last) ==
    [t \in (DOMAIN tree) \cup {target} |->
        IF t = target THEN FileNode(first, last) ELSE tree[t]]

RemoveFile(tree, target) == [t \in (DOMAIN tree) \ {target} |-> tree[t]]

tar_path == <<PayloadName>>

\* ------------------------------------------------------------------------
\* main after the decode (lines 327-347) and extract_tar
\* ------------------------------------------------------------------------
\* lines 327-334
VerifyTar ==
    /\ pc = "verify"
    /\ valid' = (DataLen(tar_data) >= 262 /\ MagicAtStart(tar_data))
    /\ idx' = IF valid' THEN idx ELSE Find(tar_data)
    /\ pc' = "save"
    /\ UNCHANGED <<dvars, exc, tar_data, fs, xvars>>

\* lines 336-341
SavePayload ==
    /\ pc = "save"
    /\ fs' = WriteFile(MakeDirs(fs, <<>>), tar_path, 0, DataLen(tar_data))
    /\ pc' = "call"
    /\ UNCHANGED <<dvars, exc, tar_data, valid, idx, xvars>>

\* the offset main passes: none, so the default
OffsetArg == 0

\* extract_tar(tar_data, output_dir) (line 345) and lines 187-188
CallExtract ==
    /\ pc = "call"
    /\ offset' = OffsetArg
    /\ pos' = offset'
    /\ file_count' = 0
    /\ pc' = "scan"
    /\ UNCHANGED <<dvars, exc, tar_data, valid, idx, fs, created, stop,
                   total>>

Stopped(why) ==
    /\ stop' = why
    /\ pc' = "total"
    /\ UNCHANGED <<exc, fs, pos, file_count, created>>

Entry(kd, nm, at, first, last) ==
    [kind |-> kd, name |-> nm, at |-> at, from |-> first, to |-> last]

\* where the scan goes after a directory entry
NextAfterDir(start, padded) == start + padded

\* one pass of `while pos + 512 <= len(data)` (lines 190-249)
ScanHeader ==
    /\ pc = "scan"
    /\ IF pos + kBlock > DataLen(tar_data) THEN Stopped("eof")
       ELSE LET header == HeaderAt(tar_data, pos) IN
       IF IsEndMarker(header) THEN Stopped("end")
       ELSE IF ~MagicOk(header) THEN Stopped("bad_magic")
       ELSE IF NameOf(header) = <<>> THEN Stopped("empty_name")
       ELSE IF BadSize(header)
       THEN /\ exc' = "ValueError"
            /\ pc' = "raised"
            /\ UNCHANGED <<fs, pos, file_count, created, stop>>
       ELSE LET file_size == FileSize(header)
                data_start == pos + kBlock
                padded_size == PaddedSize(file_size)
                name == Sanitize(NameOf(header))
            IN  IF IsDirEntry(header, name)
                THEN IF ~CanMakeDirs(fs, PathOf(name))
                     THEN /\ exc' = "FileExistsError"
                          /\ pc' = "raised"
                          /\ UNCHANGED <<fs, pos, file_count, created, stop>>
                     ELSE /\ fs' = MakeDirs(fs, PathOf(name))
                          /\ created' = Append(created,
                                 Entry("dir", name, pos, data_start,
                                       data_start))
                          /\ pos' = NextAfterDir(data_start, padded_size)
                          /\ UNCHANGED <<exc, pc, file_count, stop>>
                ELSE IF ~CanMakeDirs(fs, DirnameOf(name))
                     THEN /\ exc' = "FileExistsError"
                          /\ pc' = "raised"
                          /\ UNCHANGED <<fs, pos, file_count, created, stop>>
                ELSE IF ~CanOpen(MakeDirs(fs, DirnameOf(name)), name)
                     THEN /\ exc' = "IsADirectoryError"
                          /\ pc' = "raised"
                          /\ fs' = MakeDirs(fs, DirnameOf(name))
                          /\ UNCHANGED <<pos, file_count, created, stop>>
                ELSE LET file_data == SliceBounds(DataLen(tar_data),
                                                   data_start, file_size)
                         lo == file_data[1]
                         hi == file_data[2]
                     IN  /\ fs' = WriteFile(MakeDirs(fs, DirnameOf(name)),
                                            PathOf(name), lo, hi)
                         /\ created' = Append(created,
                                Entry("file", name, pos, lo, hi))
                         /\ file_count' = file_count + 1
                         /\ pos' = data_start + padded_size
                         /\ UNCHANGED <<exc, pc, stop>>
    /\ UNCHANGED <<dvars, tar_data, valid, idx, offset, total>>

\* lines 251-252
ReturnCount ==
    /\ pc = "total"
    /\ total' = file_count
    /\ pc' = "remove"
    /\ UNCHANGED <<dvars, exc, tar_data, valid, idx, fs, offset, pos,
                   file_count, created, stop>>

\* os.remove(tar_path) (lines 346-347)
RemovePayload ==
    /\ pc = "remove"
    /\ IF tar_path \notin DOMAIN fs
       THEN /\ exc' = "FileNotFoundError"
            /\ pc' = "raised"
            /\ fs' = fs
       ELSE IF fs[tar_path].kind = "dir"
       THEN /\ exc' = "IsADirectoryError"
            /\ pc' = "raised"
            /\ fs' = fs
       ELSE /\ fs' = RemoveFile(fs, tar_path)
            /\ pc' = "main_done"
            /\ exc' = exc
    /\ UNCHANGED <<dvars, tar_data, valid, idx, xvars>>

\* the decode half, idle: main is past line 325
DecodeIdle ==
    /\ original_size = 0 /\ stream0_size = 0 /\ stream1_size = 0
    /\ stream2_size = 0 /\ stream3_size = 0 /\ lzma_data = <<>>
    /\ InitLocals

\* images of whole blocks drawn from BlockKinds, with or without a short
\* last block
TarInitBlocks ==
    \E n \in 0..MaxBlocks : \E blks \in [1..n -> BlockKinds] :
    \E tl \in {0, 300} :
        tar_data = Image(blks, tl, IF tl = 0 THEN <<>> ELSE MagicPosix)

\* one header with an arbitrary name, then the end marker
TarInitNames ==
    \E nm \in NameFields, pf \in PrefixFields, ty \in {"0", "5"} :
        tar_data = Image(<<Hdr(nm, <<>>, ty, MagicPosix, pf),
                           Hdr(<<>>, <<>>, NUL, MagicZero, <<>>)>>,
                         0, <<>>)

TarInit ==
    /\ TarInitBlocks \/ TarInitNames
    /\ DecodeIdle
    /\ valid = FALSE /\ idx = Unbound
    /\ fs = <<>>
    /\ offset = 0 /\ pos = 0 /\ file_count = 0
    /\ created = <<>> /\ stop = "" /\ total = Unbound
    /\ pc = "verify"

TarNext ==
    \/ VerifyTar
    \/ SavePayload
    \/ CallExtract
    \/ ScanHeader
    \/ ReturnCount
    \/ RemovePayload

TarSpec == TarInit /\ [][TarNext]_vars

\* ------------------------------------------------------------------------
\* Properties of main's slicing and of bcj2_decode
\* ------------------------------------------------------------------------
DeclaredTotal == stream0_size + stream1_size + stream2_size + stream3_size

\* every buffer is as long as its declared size
BuffersFull == DeclaredTotal <= Len(lzma_data)

LittleEndian(bytes) ==
    <<bytes[4] * 256 + bytes[3], bytes[2] * 256 + bytes[1]>>

\* the last n bytes written to the output
LastOut(n) == SubSeq(out_buf, out_pos - n + 1, out_pos)

\* C1: when the declared stream sizes do not sum to the bytes available, the
\* pipeline does not crash: no subscript of buf0..buf3 (or of a slice of
\* them) is evaluated at or past the buffer's real length.
C1_SizeMismatchNeverRaises ==
    (DeclaredTotal # Len(lzma_data)) => pc # "raised"

\* which cursor ran dry, read off the return statement that was taken
RanDry ==
    \/ ret_at \in {"rc_init", "normalize", "call", "jmp"}
    \/ (ret_at = "end" /\ out_pos # original_size)

DiagNamesStream ==
    /\ ret_at = "rc_init" => diag = "RCInit" /\ buf3_pos >= stream3_size
    /\ ret_at = "normalize" => diag = "RCNormalize" /\ buf3_pos >= stream3_size
    /\ ret_at = "call" => diag = "CALL" /\ buf1_remaining < 4
    /\ ret_at = "jmp" => diag = "JMP" /\ buf2_remaining < 4
    /\ (ret_at = "end" /\ out_pos # original_size) =>
           diag = "Incomplete" /\ in_pos >= stream0_size

\* C2 as stated: with buffers as long as declared, the decoder never raises;
\* when it returns, the result is the first out_pos bytes of the output, a
\* diagnostic names the exhausted stream, and the result has original_size
\* bytes if and only if no cursor ran dry.
C2_LengthIffNoneDry ==
    BuffersFull =>
        /\ pc # "raised"
        /\ pc = "returned" =>
            /\ ret = SubSeq(out_buf, 1, out_pos)
            /\ DiagNamesStream
            /\ (Len(ret) = original_size) <=> ~RanDry

\* C2 as amended: the same, but the equivalence between a full-length result
\* and no dry cursor holds for original_size > 0; with original_size = 0 the
\* result is empty (so of length original_size) even when stream3 ran dry
\* while seeding.
C2_PartialResultOnExhaustion ==
    BuffersFull =>
        /\ pc # "raised"
        /\ pc = "returned" =>
            /\ ret = SubSeq(out_buf, 1, out_pos)
            /\ DiagNamesStream
            /\ original_size > 0 => ((Len(ret) = original_size) <=> ~RanDry)
            /\ original_size = 0 => Len(ret) = 0

C2_Witness ==
    /\ BuffersFull /\ pc = "returned" /\ ret_at = "normalize"
    /\ Len(ret) > 0 /\ Len(ret) < original_size

\* C3: out_pos never passes original_size and no write lands at or past
\* original_size; when original_size falls inside a 4-byte patch, exactly the
\* first k (1..3) little-endian bytes of the address are in the output and
\* the decode ends as a complete one.
C3_TruncatedPatch ==
    /\ out_pos <= original_size
    /\ exc # "out_buf"
    /\ Len(out_buf) = (IF pc = "main_slice" THEN 0 ELSE original_size)
    /\ (pc \in {"tail", "returned"} /\ k \in 1..3) =>
        /\ out_pos = original_size
        /\ LET P == out_pos - k
               want == Sub32(BigEndian(v), FromNat(P + 4))
           IN  \A n \in 0..(k - 1) : out_buf[P + n + 1] = ByteOf(want, n)
        /\ pc = "returned" =>
            /\ ret_at = "end" /\ diag = "OK"
            /\ ret = out_buf

C3_Witness ==
    /\ pc = "returned" /\ k = 2 /\ ret_at = "end" /\ out_pos = original_size

\* C4: after a complete patch with raw big-endian target T written at
\* P..P+3, little_endian(bytes) + (P + 4) = T modulo 2^32.
C4_PatchDecodesBack ==
    (pc = "loop_head" /\ k = 4) =>
        Add32(LittleEndian(LastOut(4)), FromNat(out_pos)) = BigEndian(v)

\* a patch whose subtraction wrapped around 2^32
C4_Witness ==
    /\ pc = "loop_head" /\ k = 4
    /\ Lt32(BigEndian(v), FromNat(out_pos))

\* the output byte before the candidate at index out_pos - 1
PrevOut == IF out_pos - 1 = 0 THEN 0 ELSE out_buf[out_pos - 1]

\* C5: when the candidate b placed at output index i is resolved, the context
\* is the output byte at i-1 for 0xE8 (0 when i = 0), 256 for 0xE9, and 257
\* only when the output byte at i-1 is 0x0F and b is 0x8x.
C5_ContextSelection ==
    pc = "decide" =>
        /\ out_buf[out_pos] = b
        /\ b = CALL => prob_idx = PrevOut
        /\ b = JMP => prob_idx = 256
        /\ prob_idx = 257 => (PrevOut = ESC0F /\ b \div 16 = 8)

\* a CALL candidate resolved right after a completed address patch
C5_Witness ==
    /\ pc = "decide" /\ b = CALL /\ buf1_pos = 4 /\ out_pos = 6
    /\ prob_idx = out_buf[5] /\ prob_idx # 0

AllProbInit == \A n \in 0..(kNumModels - 1) : p[n] = kProbInit

NothingDecoded ==
    /\ ret = <<>>
    /\ AllProbInit
    /\ b = None /\ v = <<>>
    /\ in_pos = 0 /\ buf1_pos = 0 /\ buf2_pos = 0

\* C6 as stated: with original_size = 0 and a stream3 of exactly the 5 seed
\* bytes or of zero length, the decoder returns an empty output, prints no
\* diagnostic, decodes no bit and reads nothing of streams 0, 1 and 2.
C6_EmptyOutputNoError ==
    (pc = "returned" /\ original_size = 0 /\ Len(buf3) = stream3_size
        /\ stream3_size \in {0, 5}) =>
        NothingDecoded /\ diag = ""

\* C6 as amended: no diagnostic for a stream3 holding the 5 seed bytes; a
\* stream3 shorter than the seed (zero length included) still gives an empty
\* output with nothing decoded, but the RC-init diagnostic is printed.
C6_EmptyOutputSeedRequired ==
    (pc = "returned" /\ original_size = 0 /\ Len(buf3) = stream3_size) =>
        /\ NothingDecoded
        /\ stream3_size >= 5 => diag = "" /\ ret_at = "empty"
        /\ stream3_size < 5 => diag = "RCInit" /\ ret_at = "rc_init"

C6_Witness ==
    /\ pc = "returned" /\ original_size = 0
    /\ Len(buf3) = 5 /\ stream3_size = 5
    /\ buf3_pos = 5 /\ stream0_size > 0

Ended == pc \in {"returned", "raised"}

\* C11: bcj2_decode terminates on every input: every pass of the outer loop
\* that reaches line 86 either leaves the loop (or raises) or advances in_pos
\* by one; in_pos never decreases and never passes size0, so at most size0
\* candidates are resolved.
C11_Terminates ==
    /\ <>Ended
    /\ [](in_pos <= stream0_size)
    /\ [][/\ in_pos' >= in_pos
          /\ pc = "check" =>
                \/ pc' \in {"tail", "raised"}
                \/ (pc' = "decide" /\ in_pos' = in_pos + 1)
          /\ pc' = "decide" => pc = "check"]_vars

\* a decode that resolved every byte of a main stream of candidates
C11_Witness ==
    /\ pc = "returned" /\ ret_at = "end"
    /\ stream0_size >= MaxRun - 1 /\ in_pos = stream0_size
    /\ buf3_pos > 5

\* 0xE8, 0xE9, or 0x80..0x8F after 0x0F
Candidate(prev, byte) ==
    \/ byte = 232 \/ byte = 233
    \/ (prev = 15 /\ byte >= 128 /\ byte <= 143)

\* the copy run has just stopped on a byte, with room left
StopsOnByte == pc = "copy" /\ pc' = "check" /\ limit # 0

\* the decode returned because a stream ran dry while resolving b
DryWhileResolving == pc = "returned" /\ ret_at \in {"normalize", "call", "jmp"}

\* C12 as stated: when a copy run stops on a candidate b, neither out_pos
\* nor in_pos has moved for b, and an exhaustion detected while resolving b
\* returns an output that does not hold b: it holds the main-stream bytes
\* before b and the complete patches only.
C12_CandidateNotCopied ==
    /\ [][StopsOnByte =>
            /\ Candidate(prev_byte, b')
            /\ out_pos' = out_pos /\ in_pos' = in_pos]_vars
    /\ [](DryWhileResolving => Len(ret) = (in_pos - 1) + buf1_pos + buf2_pos)

\* C12 as amended: a copy run goes on over bytes that are no candidates and
\* stops on a candidate b with b already copied to the output (out_pos has
\* moved by one for b) and in_pos still on b; an exhaustion detected while
\* resolving b returns an output whose last byte is b.
C12_CandidateCopiedNotPassed ==
    /\ [][/\ StopsOnByte =>
                /\ Candidate(prev_byte, b')
                /\ b' = buf0[in_pos + 1]
                /\ out_pos' = out_pos + 1 /\ out_buf'[out_pos'] = b'
                /\ in_pos' = in_pos
          /\ (pc = "copy" /\ pc' = "copy") =>
                /\ ~Candidate(prev_byte, b')
                /\ out_pos' = out_pos + 1 /\ in_pos' = in_pos + 1]_vars
    /\ [](DryWhileResolving =>
            /\ Len(ret) = in_pos + buf1_pos + buf2_pos
            /\ ret[Len(ret)] = b /\ buf0[in_pos] = b)

\* the CALL stream ran dry on the second candidate of the run
C12_Witness ==
    /\ pc = "returned" /\ ret_at = "call" /\ b = CALL
    /\ Len(ret) >= 2 /\ ret[Len(ret)] = CALL /\ in_pos >= 2

\* 0x01000000 <= rng
AtLeastTop(rng) == rng[1] >= 256

\* `while range < 0x01000000`: shift range, pull one byte into code
RECURSIVE NormalizeLoop(_, _, _)
NormalizeLoop(rng, cd, cur) ==
    IF ~AtLeastTop(rng) /\ cur < Len(buf3)
    THEN NormalizeLoop(Shl8(rng), Shl8Or(cd, buf3[cur + 1]), cur + 1)
    ELSE <<rng, cd, cur>>

\* range and code after UPDATE_0 / UPDATE_1, before normalizing
AfterUpdate ==
    LET bound == BoundOf(rc_range, p[prob_idx])
    IN  IF Lt32(code, bound) THEN <<bound, code>>
        ELSE <<Sub32(rc_range, bound), Sub32(code, bound)>>

BitDecided == pc = "decide" /\ pc' \in {"loop_head", "addr"}

\* C13: after every completed bit decision range >= 0x01000000, and the one
\* conditional shift leaves the range, code and stream3 cursor that the loop
\* `while range < 0x01000000` leaves.
C13_OneShiftSuffices ==
    /\ [](pc \in {"loop_head", "copy", "check", "decide", "addr", "patch",
                  "tail"} => AtLeastTop(rc_range))
    /\ [][BitDecided =>
            /\ AtLeastTop(rc_range')
            /\ <<rc_range', code', buf3_pos'>> =
                   NormalizeLoop(AfterUpdate[1], AfterUpdate[2], buf3_pos)]_vars

\* a refill that left less than 0x04000000: the decision took the unlikely
\* bit of a slot at the end of its range, from a range just above 0x01000000
C13_Witness ==
    /\ pc \in {"loop_head", "addr"} /\ buf3_pos > 5
    /\ rc_range[1] < 1024 /\ rc_range[2] % 256 = 0
    /\ p[prob_idx] \in {94, 1954}

\* C14: each of the 258 slots stays strictly between 0 and 2048, so at every
\* bit decision 0 < bound < range; a bit decision changes the slot of the
\* selected context only, and nothing else changes any slot.
C14_SlotsStayInRange ==
    /\ [](/\ DOMAIN p = 0..257
          /\ \A n \in 0..257 : p[n] > 0 /\ p[n] < 2048)
    /\ [](pc = "decide" =>
            LET bound == BoundOf(rc_range, p[prob_idx])
            IN  Lt32(<<0, 0>>, bound) /\ Lt32(bound, rc_range))
    /\ [][\A n \in 0..257 :
            p'[n] # p[n] => (pc = "decide" /\ n = prob_idx)]_vars

\* a decision about to be taken with a slot at the low end of its range,
\* other slots having moved both ways
C14_Witness ==
    /\ pc = "decide" /\ p[prob_idx] = 31
    /\ \E n \in 0..257 : p[n] > 1024
    /\ \E n \in 0..257 : p[n] < 1024 /\ n # prob_idx

AddrCursorsUnchanged ==
    /\ buf1_pos' = buf1_pos /\ buf1_remaining' = buf1_remaining
    /\ buf2_pos' = buf2_pos /\ buf2_remaining' = buf2_remaining

\* C15: the address read after a bit-1 decision takes exactly 4 bytes from
\* the CALL stream for 0xE8 and from the JMP stream for 0xE9 and Jcc, and
\* leaves the other cursor alone; with fewer than 4 bytes remaining it
\* consumes nothing; a bit-0 decision and a copy step leave both address
\* cursors alone, and a copy step emits a main-stream byte only.
C15_AddressCursors ==
    [][/\ (pc = "addr" /\ b = 232 /\ buf1_remaining >= 4) =>
            /\ pc' = "patch"
            /\ v' = SubSeq(buf1, buf1_pos + 1, buf1_pos + 4)
            /\ buf1_pos' = buf1_pos + 4
            /\ buf1_remaining' = buf1_remaining - 4
            /\ buf2_pos' = buf2_pos /\ buf2_remaining' = buf2_remaining
       /\ (pc = "addr" /\ b # 232 /\ buf2_remaining >= 4) =>
            /\ pc' = "patch"
            /\ v' = SubSeq(buf2, buf2_pos + 1, buf2_pos + 4)
            /\ buf2_pos' = buf2_pos + 4
            /\ buf2_remaining' = buf2_remaining - 4
            /\ buf1_pos' = buf1_pos /\ buf1_remaining' = buf1_remaining
       /\ (pc = "addr" /\ ((b = 232 /\ buf1_remaining < 4)
                            \/ (b # 232 /\ buf2_remaining < 4))) =>
            /\ pc' = "returned"
            /\ AddrCursorsUnchanged
            /\ out_pos' = out_pos /\ out_buf' = out_buf
       /\ pc \in {"loop_head", "copy", "check", "decide", "patch", "tail"}
            => AddrCursorsUnchanged
       /\ (pc = "decide" /\ pc' = "loop_head") =>
            out_pos' = out_pos /\ out_buf' = out_buf
       /\ pc' = "addr" => (pc = "decide" /\ ~Lt32(code, BoundOf(rc_range,
                                                               p[prob_idx])))
       /\ (pc = "copy" /\ out_buf' # out_buf) =>
            out_buf' = [out_buf EXCEPT ![out_pos + 1] = buf0[in_pos + 1]]]_vars

\* a JMP address read after a CALL address read
C15_Witness ==
    /\ pc = "patch" /\ b = 233 /\ prob_idx = 256
    /\ buf1_pos = 4 /\ buf2_pos = 4
    /\ buf1_remaining = 0 /\ buf2_remaining = 0

\* C17: at the head of every pass of the outer loop out_pos = in_pos +
\* buf1_pos + buf2_pos; out_pos never decreases and an output index below
\* out_pos is never written again.
C17_CursorAccounting ==
    /\ [](pc = "loop_head" => out_pos = in_pos + buf1_pos + buf2_pos)
    /\ [][/\ out_pos' >= out_pos
          /\ \A n \in 1..out_pos : out_buf'[n] = out_buf[n]]_vars

\* the head of the loop after a literal, a JMP candidate and its address
C17_Witness ==
    /\ pc = "loop_head" /\ k = 4
    /\ in_pos = 2 /\ buf1_pos = 0 /\ buf2_pos = 4 /\ out_pos = 6
    /\ out_buf[2] = JMP

\* the big-endian value of bytes 1..4 of stream3 (byte 0 left out)
Seed == <<buf3[2] * 256 + buf3[3], buf3[4] * 256 + buf3[5]>>

\* the seed loop has run to its end
Seeded ==
    \/ pc \in {"loop_head", "copy", "check", "decide", "addr", "patch", "tail"}
    \/ (pc = "returned" /\ ret_at # "rc_init")

\* nothing has been decoded since the seed loop
JustSeeded ==
    \/ (pc = "loop_head" /\ in_pos = 0 /\ out_pos = 0)
    \/ (pc = "returned" /\ ret_at = "empty")

\* x < 2^24, so that x << 8 fits 32 bits
Below24(x) == x[1] < 256

\* C18: seeding consumes exactly 5 bytes of stream3 and leaves code = the
\* big-endian value of bytes 1..4; if that value is not 0xFFFFFFFF then
\* code < range at every loop head, and at every bit decision the operands
\* of the masked operations are such that the mask discards nothing:
\* bound < range where it is subtracted from range (it is subtracted from
\* code only in the branch code >= bound), code < range, and code is below
\* 2^24 whenever range is, where both are shifted by 8.
C18_SeedAndMasks ==
    /\ Seeded => (Len(buf3) >= 5 /\ buf3_pos >= 5)
    /\ JustSeeded => (buf3_pos = 5 /\ code = Seed)
    /\ (Seeded /\ Seed # <<65535, 65535>>) =>
        /\ pc = "loop_head" => Lt32(code, rc_range)
        /\ pc = "decide" =>
            LET bound == BoundOf(rc_range, p[prob_idx])
            IN  /\ Lt32(bound, rc_range)
                /\ Lt32(code, rc_range)
                /\ ~AtLeastTop(AfterUpdate[1]) => Below24(AfterUpdate[2])

\* a loop head after bit-1 decisions and three refills, reached from a seed
\* whose byte 0 is not part of code
C18_Witness ==
    /\ pc = "loop_head" /\ buf3_pos >= 8 /\ buf1_pos > 0
    /\ code # <<0, 0>> /\ Lt32(code, rc_range)
    /\ Seed # <<65535, 65535>>

\* ------------------------------------------------------------------------
\* Properties of extract_tar and of main's last steps
\* ------------------------------------------------------------------------
HasDotDot(s) == \E n \in 1..(Len(s) - 1) : s[n] = "." /\ s[n + 1] = "."

\* C7: the relative path of every entry created under the output root does
\* not begin with '/' and contains no '..', whatever the name and prefix
\* fields hold; extract_tar materialises it at a path below the root.
C7_NoPathTraversal ==
    \A n \in 1..Len(created) :
        LET nm == created[n].name
        IN  /\ ~(nm # <<>> /\ nm[1] = "/")
            /\ ~HasDotDot(nm)
            /\ \A c \in 1..Len(PathOf(nm)) : PathOf(nm)[c] # <<".", ".">>
            /\ pc \in {"scan", "total"} => PathOf(nm) \in DOMAIN fs

\* an entry created from a name field that is absolute and climbs
C7_Witness ==
    \E n \in 1..Len(created) :
        LET h == HeaderAt(tar_data, created[n].at)
        IN  /\ h.name # <<>> /\ h.name[1] = "/" /\ HasDotDot(h.name)
            /\ HasDotDot(h.prefix)

\* C8: an entry classified as a directory consumes no content bytes: the
\* scan position advances by exactly 512, whatever the size field holds.
C8_DirectoryAdvances512 ==
    [][(pc = "scan" /\ Len(created') = Len(created) + 1
            /\ created'[Len(created')].kind = "dir")
        => pos' = pos + kBlock]_vars

\* bytes [257,262) all zero, or neither of the two magics
ZeroOrForeign(h) ==
    LET m5 == SubSeq(h.magic, 1, 5)
    IN  \/ m5 = <<NUL, NUL, NUL, NUL, NUL>>
        \/ (m5 # <<"u", "s", "t", "a", "r">>
            /\ h.magic # <<"u", "s", "t", "a", "r", SP, SP, NUL>>)

\* the header offsets the scan accepts from offset q on, in archive order
RECURSIVE AcceptedFrom(_, _)
AcceptedFrom(data, q) ==
    IF q + kBlock > DataLen(data) THEN <<>>
    ELSE LET h == HeaderAt(data, q)
         IN  IF ZeroOrForeign(h) \/ NameOf(h) = <<>> \/ BadSize(h)
             THEN <<>>
             ELSE <<q>> \o AcceptedFrom(data,
                              q + kBlock + PaddedSize(FileSize(h)))

CreatedAt == [n \in 1..Len(created) |-> created[n].at]

\* C9: the scan stops at the first header with a zero or foreign magic:
\* nothing is created for it or after it, and the entries created are those
\* of the accepted headers before it, in archive order.
C9_StopsAtFirstBadMagic ==
    [][/\ (pc = "scan" /\ pos + kBlock <= DataLen(tar_data)
              /\ ZeroOrForeign(HeaderAt(tar_data, pos)))
          => (pc' = "total" /\ created' = created /\ fs' = fs /\ pos' = pos)
       /\ pc \in {"total", "remove", "main_done"} => created' = created
       /\ pc' = "total" =>
            /\ CreatedAt' = AcceptedFrom(tar_data, 0)
            /\ \A n \in 1..Len(created') : created'[n].at < pos'
            /\ stop' \in {"end", "bad_magic"} =>
                   ZeroOrForeign(HeaderAt(tar_data, pos'))]_vars

\* stopped on a foreign magic after creating an entry, with blocks left
C9_Witness ==
    /\ pc = "total" /\ stop = "bad_magic" /\ Len(created) >= 1
    /\ pos + 2 * kBlock <= DataLen(tar_data)
    /\ ~ZeroOrForeign(HeaderAt(tar_data, pos + kBlock))

\* C10: when the image does not start with the magic, main does not abort;
\* it extracts from where its scan for the magic located a header, and it
\* reports zero entries when the scan found nothing.
C10_ScanGuidesExtraction ==
    (pc \in {"scan", "total", "remove", "main_done", "raised"} /\ ~valid) =>
        /\ pc # "raised"
        /\ idx >= 0 => offset = idx - 257
        /\ (idx < 0 /\ pc = "main_done") => total = 0

\* the least multiple of 512 that is >= n, for a size above 0
RoundUp512(n) == IF n > 0 THEN ((n + 511) \div 512) * 512 ELSE 0

EntryAccepted == pc = "scan" /\ Len(created') = Len(created) + 1

\* C16: after each accepted entry the scan position advances by 512 plus the
\* size rounded up to a multiple of 512, so it stays at the start offset plus
\* a multiple of 512 and strictly increases; every pass of the loop either
\* leaves the loop (or raises) or accepts an entry, and an entry is accepted
\* only with a whole header left, so the scan ends after at most
\* (len(data) - offset) / 512 headers.
C16_ScanAdvances ==
    /\ [](/\ (pos - offset) % 512 = 0
          /\ pos >= offset
          /\ 512 * Len(created) <= pos - offset
          /\ 512 * Len(created) <= DataLen(tar_data) - offset)
    /\ [][/\ EntryAccepted =>
                /\ pos + 512 <= DataLen(tar_data)
                /\ pos' = pos + 512
                        + RoundUp512(FileSize(HeaderAt(tar_data, pos)))
                /\ pos' > pos
          /\ pc = "scan" =>
                \/ pc' \in {"total", "raised"} /\ pos' = pos
                \/ pc' = "scan" /\ EntryAccepted]_vars

\* the scan went past the end of the data after a file of 512 bytes, a file
\* of 5 bytes and their padding
C16_Witness ==
    /\ pc = "total" /\ stop = "eof" /\ Len(created) = 2
    /\ pos = 4 * 512 /\ pos > DataLen(tar_data)


\* the entries written as regular files that no later entry of the archive
\* writes again
LastWritten ==
    { n \in 1..Len(created) :
        /\ created[n].kind = "file"
        /\ \A m \in (n + 1)..Len(created) :
               PathOf(created[m].name) # PathOf(created[n].name) }

\* C19: when main returns, every regular file extract_tar wrote (and did not
\* itself write again) is in the output directory with its archive content,
\* whatever its name: saving and removing '_payload.tar' costs no entry.
C19_ExtractedFilesSurvive ==
    pc = "main_done" =>
        \A n \in LastWritten :
            /\ PathOf(created[n].name) \in DOMAIN fs
            /\ fs[PathOf(created[n].name)] =
                   FileNode(created[n].from, created[n].to)


\* the scan raised while it was at the header at pos
RaisedInScan == pc = "raised" /\ stop = "" /\ pos + kBlock <= DataLen(tar_data)

\* C20: every entry extract_tar materialises has a non-empty name after
\* sanitisation, and a header whose name is empty once the leading '/' are
\* stripped is never opened as a file at the output root itself.
C20_EmptyNameNeverUsed ==
    /\ \A n \in 1..Len(created) : created[n].name # <<>>
    /\ (RaisedInScan /\ exc = "IsADirectoryError") =>
           Sanitize(NameOf(HeaderAt(tar_data, pos))) # <<>>

====
